---- MODULE Spec2Model ----
(***************************************************************************)
(* Model of the iTerm2 profile workflow: iTerm2OpenProfile.py (staging,    *)
(* dump parser, filter, item construction) and alfred.py (Workflow.run,    *)
(* add_item, Item.elem, send_feedback).                                    *)
(*                                                                         *)
(* Text is a sequence of one-character strings, so that find, replace,     *)
(* split, strip and lower are computed as Python computes them.            *)
(***************************************************************************)
EXTENDS Naturals, Integers, Sequences, FiniteSets, TLC

VARIABLES
    plist,      \* ~/Library/Preferences/com.googlecode.iterm2.plist
    staged,     \* /tmp/com.googlecode.iterm2.json
    pc,         \* position of the invocation
    query,      \* sys.argv[1]
    lines,      \* f.readlines()
    lineNo,     \* position of the for loop in lines
    name,       \* wsh_list local
    tags,       \* wsh_list local
    tag_end,    \* wsh_list local
    items,      \* wsh_list local
    wf_items,   \* Workflow._items
    handling,   \* TRUE inside the except block of Workflow.run
    err,        \* the exception the except block of Workflow.run caught
    uncaught,   \* the exception that ended the process
    stdout,     \* what has been written to sys.stdout, in order
    flushed,    \* sys.stdout.flush() has returned
    exitStatus, \* the process's exit status, -1 while it runs
    attempted,  \* the operations the invocation has begun, in order
    history     \* what each finished invocation found and did, in order

vars == <<plist, staged, pc, query, lines, lineNo, name, tags, tag_end,
          items, wf_items, handling, err, uncaught, stdout, flushed,
          exitStatus, attempted, history>>

----------------------------------------------------------------------------
(* Bounds *)

MaxProfiles == 2
MaxLines == 3
MaxItems == 2
MaxInvocations == 2

----------------------------------------------------------------------------
(* Python str operations on sequences of characters *)

Quote == "\""
Whitespace == {" ", "\n", "\t"}

Min(S) == CHOOSE x \in S : \A y \in S : x <= y

\* str.find: the lowest 0-based index where sub occurs in s, or -1.
Find(s, sub) ==
    LET hits == {i \in 0..(Len(s) - Len(sub)) :
                    SubSeq(s, i + 1, i + Len(sub)) = sub}
    IN  IF hits = {} THEN -1 ELSE Min(hits)

\* the `in` operator of str
Contains(s, sub) == Find(s, sub) # -1

RECURSIVE Replace(_, _, _)
\* str.replace(old, new), old non-empty: every non-overlapping occurrence,
\* left to right.
Replace(s, old, new) ==
    LET i == Find(s, old)
    IN  IF i = -1 THEN s
        ELSE SubSeq(s, 1, i) \o new
             \o Replace(SubSeq(s, i + Len(old) + 1, Len(s)), old, new)

RECURSIVE Split(_, _)
\* str.split(sep): the pieces between the occurrences of sep.
Split(s, sep) ==
    LET i == Find(s, sep)
    IN  IF i = -1 THEN <<s>>
        ELSE <<SubSeq(s, 1, i)>>
             \o Split(SubSeq(s, i + Len(sep) + 1, Len(s)), sep)

RECURSIVE LStrip(_)
LStrip(s) ==
    IF s # <<>> /\ Head(s) \in Whitespace THEN LStrip(Tail(s)) ELSE s

RECURSIVE RStrip(_)
RStrip(s) ==
    IF s # <<>> /\ s[Len(s)] \in Whitespace
    THEN RStrip(SubSeq(s, 1, Len(s) - 1)) ELSE s

\* str.strip()
Strip(s) == RStrip(LStrip(s))

LowerChar(c) ==
    CASE c = "D" -> "d"
      [] c = "O" -> "o"
      [] c = "N" -> "n"
      [] c = "T" -> "t"
      [] OTHER -> c

\* str.lower()
Lower(s) == [i \in 1..Len(s) |-> LowerChar(s[i])]

RECURSIVE Join(_, _)
\* sep.join(parts)
Join(sep, parts) ==
    IF parts = <<>> THEN <<>>
    ELSE IF Len(parts) = 1 THEN parts[1]
    ELSE parts[1] \o sep \o Join(sep, Tail(parts))

----------------------------------------------------------------------------
(* Python values held by Item fields *)

Str(s) == [t |-> "str", v |-> s]
None == [t |-> "None", v |-> <<>>]
ExcObj(e) == [t |-> "exc", v |-> e.msg]

\* truth value of a field in `if self.arg:`
Truthy(x) == x.t = "exc" \/ (x.t = "str" /\ x.v # <<>>)

NoErr == [kind |-> "none", msg |-> <<>>]
IndexError == [kind |-> "IndexError", msg |-> <<"list index out of range">>]
OSError == [kind |-> "OSError", msg |-> <<"write failed">>]
TypeError == [kind |-> "TypeError", msg |-> <<"cannot serialize">>]

iterm_plist == <<"~/Library/Preferences/com.googlecode.iterm2.plist">>

ItermPlistError ==
    [kind |-> "ItermPlistError",
     msg |-> <<"Can not find plist file at: ">> \o iterm_plist]

----------------------------------------------------------------------------
(* The dump *)

keyword_name == <<Quote, "N", "a", "m", "e", Quote, " ", "=", ">", " ">>
keyword_tags == <<Quote, "T", "a", "g", "s", Quote, " ", "=", ">", " ">>

Indent == <<" ", " ">>
Digits == <<"0", "1", "2", "3", "4", "5", "6", "7", "8", "9">>

NameLine(n) == Indent \o keyword_name \o <<Quote>> \o n \o <<Quote, "\n">>
TagsOpenLine == Indent \o keyword_tags \o <<"[", "\n">>
TagLine(i, t) ==
    Indent \o <<Digits[i + 1], " ", "=", ">", " ", Quote>> \o t \o <<Quote, "\n">>
CloseLine == Indent \o <<"]", "\n">>

RECURSIVE TagLines(_, _)
TagLines(ts, i) ==
    IF ts = <<>> THEN <<>>
    ELSE <<TagLine(i, Head(ts))>> \o TagLines(Tail(ts), i + 1)

ProfileLines(p) ==
    <<NameLine(p.name), TagsOpenLine>> \o TagLines(p.tags, 0) \o <<CloseLine>>

RECURSIVE Plutil(_)
\* `plutil -p` on the copied preference file: one name/tags block per
\* profile, in the file's order.
Plutil(profiles) ==
    IF profiles = <<>> THEN <<>>
    ELSE ProfileLines(Head(profiles)) \o Plutil(Tail(profiles))

----------------------------------------------------------------------------
(* Inputs *)

Names == {<<"D", "e", "v">>, <<"o">>}

TagSeqs ==
    {<<>>,
     <<<<"d", "o">>>>,
     <<<<"d", "o">>, <<"w">>>>,
     <<<<"w">>, <<"d", "o">>>>,
     <<<<"a", "=", ">", "b">>>>,
     <<<<"c", "]">>>>}

Profiles == [name : Names, tags : TagSeqs]

SeqsUpTo(S, n) == UNION {[1..k -> S] : k \in 0..n}

\* the preference files: up to MaxProfiles profiles
PlistContents == SeqsUpTo(Profiles, MaxProfiles)

\* lines a staged dump may hold besides the ones plutil prints
RawLines ==
    {NameLine(<<"D", "e", "v">>),
     TagsOpenLine,
     TagLine(0, <<"d", "o">>),
     TagLine(1, <<"a", "=", ">", "b">>),
     CloseLine,
     <<"\n">>,
     <<"x", " ">> \o keyword_name \o <<Quote, "o", Quote, "\n">>,
     keyword_name \o <<Quote, "o", "]", Quote, "\n">>}

RawDumps == SeqsUpTo(RawLines, MaxLines)

\* a dump whose last block was cut off before its closing line
Unterminated(dump) == SubSeq(dump, 1, Len(dump) - 1)

Queries == {<<>>, <<"d">>, <<"O">>}

File(c) == [exists |-> TRUE, content |-> c]
NoFile == [exists |-> FALSE, content |-> <<>>]

----------------------------------------------------------------------------
(* iTerm2OpenProfile.py *)

\* line.find(keyword_name) != -1
HasNameMarker(line) == Find(line, keyword_name) # -1

\* line.replace(keyword_name, '').replace('"', '').strip()
NameOf(line) ==
    Strip(Replace(Replace(line, keyword_name, <<>>), <<Quote>>, <<>>))

\* line.find(keyword_tags) != -1
HasTagsMarker(line) == Find(line, keyword_tags) # -1

\* the test written `if line.find(']'):`, true also when ']' is absent
HasClose_Truthy(line) == Find(line, <<"]">>) # 0

\* line.find(']') != -1
HasClose(line) == Find(line, <<"]">>) # -1

\* line.split('=>')
Parts(line) == Split(line, <<"=", ">">>)

\* line.split('=>')[1].replace('"', '').strip(), the list having the index
TagOf(line) == Strip(Replace(Parts(line)[2], <<Quote>>, <<>>))

\* the name kept only when none is pending
NameAfter_KeepFirst(st, line) ==
    IF HasNameMarker(line) /\ st.name = <<>> THEN NameOf(line) ELSE st.name

\* the local `name` after the first `if` of the loop body
NameAfter(st, line) ==
    IF HasNameMarker(line) THEN NameOf(line) ELSE st.name

\* the record inserted at the head of the list
CloseRecord_Prepend(st, name1) ==
    [name |-> <<>>, tags |-> <<>>, tag_end |-> TRUE,
     items |-> <<[name |-> name1, tags |-> Join(<<" ">>, st.tags)]>>
               \o st.items,
     raised |-> FALSE]

\* the branch without its `name = ''`
CloseRecord_NameKept(st, name1) ==
    [name |-> name1, tags |-> <<>>, tag_end |-> TRUE,
     items |-> Append(st.items,
                      [name |-> name1, tags |-> Join(<<" ">>, st.tags)]),
     raised |-> FALSE]

\* the branch without its `tags = []`
CloseRecord_TagsKept(st, name1) ==
    [name |-> <<>>, tags |-> st.tags, tag_end |-> TRUE,
     items |-> Append(st.items,
                      [name |-> name1, tags |-> Join(<<" ">>, st.tags)]),
     raised |-> FALSE]

\* the branch of a line with ']': items.append(dict(...)) and the resets
CloseRecord(st, name1) ==
    [name |-> <<>>, tags |-> <<>>, tag_end |-> TRUE,
     items |-> Append(st.items,
                      [name |-> name1, tags |-> Join(<<" ">>, st.tags)]),
     raised |-> FALSE]

\* One iteration of the for loop of wsh_list over `line`, from the locals
\* st = [name, tags, tag_end, items]; raised is TRUE when
\* line.split('=>')[1] raises IndexError.
ParseLine(st, line) ==
    LET name1 == NameAfter(st, line)
    IN  IF HasTagsMarker(line)
        THEN [name |-> name1, tags |-> st.tags, tag_end |-> FALSE,
              items |-> st.items, raised |-> FALSE]
        ELSE IF st.tag_end = FALSE
        THEN IF HasClose(line)
             THEN CloseRecord(st, name1)
             ELSE IF Len(Parts(line)) < 2
             THEN [name |-> name1, tags |-> st.tags, tag_end |-> FALSE,
                   items |-> st.items, raised |-> TRUE]
             ELSE [name |-> name1,
                   tags |-> Append(st.tags, TagOf(line)),
                   tag_end |-> FALSE, items |-> st.items, raised |-> FALSE]
        ELSE [name |-> name1, tags |-> st.tags, tag_end |-> st.tag_end,
              items |-> st.items, raised |-> FALSE]

\* the test without its `or` on the tags
Matches_NameOnly(item, q) == Contains(Lower(item.name), q)

\* the test of filter's loop, query already lowered
Matches(item, q) ==
    Contains(Lower(item.name), q) \/ Contains(Lower(item.tags), q)

RECURSIVE FilterLoop(_, _, _)
\* for item in items: ... new_items.append(item)
FilterLoop(its, q, new_items) ==
    IF its = <<>> THEN new_items
    ELSE FilterLoop(Tail(its), q,
                    IF Matches(Head(its), q)
                    THEN Append(new_items, Head(its))
                    ELSE new_items)

\* filter with the empty query answered by an empty list
Filter_EmptyQueryNothing(its, q) ==
    IF q = <<>> THEN <<>> ELSE FilterLoop(its, Lower(q), <<>>)

\* filter whose loop starts at the second item
Filter_SkipFirst(its, q) ==
    IF q = <<>> THEN its
    ELSE FilterLoop(SubSeq(its, 2, Len(its)), Lower(q), <<>>)

\* filter(items, query)
Filter(its, q) ==
    IF q = <<>> THEN its ELSE FilterLoop(its, Lower(q), <<>>)

----------------------------------------------------------------------------
(* alfred.py *)

ICON_ERROR == <<"AlertStopIcon.icns">>

\* os.path.dirname(__file__): _name and _bundleid are never set
WorkflowName == <<"src">>

\* add_item called without valid=True: the parameter's default is False
ProfileItem_DefaultValid(item) ==
    [title |-> Str(item.name), subtitle |-> Str(item.tags),
     arg |-> Str(item.name), valid |-> FALSE, icon |-> None]

\* Workflow.add_item with the arguments wsh_list gives it
ProfileItem(item) ==
    [title |-> Str(item.name), subtitle |-> Str(item.tags),
     arg |-> Str(item.name), valid |-> TRUE, icon |-> None]

\* Workflow.add_item with the arguments the except block gives it
ErrorItem(e) ==
    [title |-> Str(<<"Error in workflow '">> \o WorkflowName \o <<"'">>),
     subtitle |-> ExcObj(e), arg |-> None, valid |-> FALSE,
     icon |-> Str(ICON_ERROR)]

\* Item.elem: the <item> node, its optional children as sequences of
\* zero or one text
Elem(item) ==
    [valid |-> IF item.valid THEN "yes" ELSE "no",
     title |-> item.title,
     subtitle |-> item.subtitle,
     arg |-> IF Truthy(item.arg) THEN <<item.arg>> ELSE <<>>,
     icon |-> IF Truthy(item.icon) THEN <<item.icon>> ELSE <<>>]

\* the texts of a node
Texts(e) == {e.title, e.subtitle} \cup {e.arg[i] : i \in DOMAIN e.arg}
            \cup {e.icon[i] : i \in DOMAIN e.icon}

\* ET.tostring raises TypeError on a text that is not a str
Serializable(root) == \A i \in DOMAIN root : \A x \in Texts(root[i]) : x.t = "str"

\* the <items> root send_feedback builds
Root(its) == [i \in 1..Len(its) |-> Elem(its[i])]

\* the tag names of Item.elem and send_feedback
TagItems == <<"i", "t", "e", "m", "s">>
TagItem == <<"i", "t", "e", "m">>
TagTitle == <<"t", "i", "t", "l", "e">>
TagSubtitle == <<"s", "u", "b", "t", "i", "t", "l", "e">>
TagArg == <<"a", "r", "g">>
TagIcon == <<"i", "c", "o", "n">>

\* '&' replaced after '<' and '>', so that their own '&' is escaped again
EscapeCData_AmpLast(text) ==
    Replace(Replace(Replace(text, <<"<">>, <<"&", "l", "t", ";">>), <<">">>, <<"&", "g", "t", ";">>), <<"&">>, <<"&", "a", "m", "p", ";">>)

\* ET.tostring: the escaping of character data, '&' first
EscapeCData(text) ==
    Replace(Replace(Replace(text, <<"&">>, <<"&", "a", "m", "p", ";">>), <<"<">>, <<"&", "l", "t", ";">>), <<">">>, <<"&", "g", "t", ";">>)

\* ET.tostring: the escaping of an attribute value
EscapeAttrib(text) == Replace(EscapeCData(text), <<Quote>>, <<"&", "q", "u", "o", "t", ";">>)

\* ET.tostring: a node without attributes that holds text only; one whose
\* text is empty is written as an empty-element tag
TextElement(tag, text) ==
    IF text = <<>> THEN <<"<">> \o tag \o <<" ", "/", ">">>
    ELSE <<"<">> \o tag \o <<">">> \o EscapeCData(text)
         \o <<"<", "/">> \o tag \o <<">">>

\* the texts of zero or one optional child, serialized
OptionalElement(tag, child) ==
    IF child = <<>> THEN <<>> ELSE TextElement(tag, child[1].v)

\* ET.tostring of one <item> node
ItemToString(e) ==
    <<"<">> \o TagItem \o <<" ", "v", "a", "l", "i", "d", "=", "\"">>
    \o EscapeAttrib(IF e.valid = "yes" THEN <<"y", "e", "s">> ELSE <<"n", "o">>)
    \o <<Quote, ">">>
    \o TextElement(TagTitle, e.title.v)
    \o TextElement(TagSubtitle, e.subtitle.v)
    \o OptionalElement(TagArg, e.arg)
    \o OptionalElement(TagIcon, e.icon)
    \o <<"<", "/">> \o TagItem \o <<">">>

RECURSIVE ItemsToString(_)
ItemsToString(root) ==
    IF root = <<>> THEN <<>>
    ELSE ItemToString(Head(root)) \o ItemsToString(Tail(root))

\* ET.tostring(root) for a root whose texts are all str
tostring(root) ==
    IF root = <<>> THEN <<"<">> \o TagItems \o <<" ", "/", ">">>
    ELSE <<"<">> \o TagItems \o <<">">> \o ItemsToString(root)
         \o <<"<", "/">> \o TagItems \o <<">">>

\* the declaration send_feedback writes first
XmlDeclText ==
    <<"<", "?", "x", "m", "l", " ", "v", "e", "r", "s", "i", "o", "n", "=",
      Quote, "1", ".", "0", Quote, " ", "e", "n", "c", "o", "d", "i", "n",
      "g", "=", Quote, "u", "t", "f", "-", "8", Quote, "?", ">", "\n">>

XmlDecl == [kind |-> "decl", items |-> <<>>, text |-> XmlDeclText]
Body(root) == [kind |-> "body", items |-> root, text |-> tostring(root)]

----------------------------------------------------------------------------
(* The invocation *)

\* The staged dumps an invocation may find beside preference file p. The
\* content of p is read only when no staged dump exists, so the arbitrary
\* dumps are paired with one content; a staged dump beside a non-empty
\* preference file is that file's dump cut off before its last line.
StagedFor(p) ==
    {NoFile} \cup
    (IF p.content = <<>>
     THEN {File(d) : d \in RawDumps}
     ELSE {File(Unterminated(Plutil(p.content)))})

Init ==
    /\ plist \in {NoFile} \cup {File(c) : c \in PlistContents}
    /\ staged \in StagedFor(plist)
    /\ pc = "copy"
    /\ query \in Queries
    /\ lines = <<>>
    /\ lineNo = 0
    /\ name = <<>>
    /\ tags = <<>>
    /\ tag_end = TRUE
    /\ items = <<>>
    /\ wf_items = <<>>
    /\ handling = FALSE
    /\ err = NoErr
    /\ uncaught = NoErr
    /\ stdout = <<>>
    /\ flushed = FALSE
    /\ exitStatus = -1
    /\ attempted = <<>>
    /\ history = <<>>

\* One entry of the log of operations begun: the call and whether it
\* returned (TRUE) or raised (FALSE).
Attempt(op, ok) == [op |-> op, ok |-> ok]

\* An exception e leaves the running code. Inside func it reaches the
\* except block of Workflow.run; inside the except block nothing catches
\* it and the interpreter ends with status 1.
Raise(e) ==
    /\ err' = IF handling THEN err ELSE e
    /\ uncaught' = IF handling THEN e ELSE uncaught
    /\ pc' = IF handling THEN "exited" ELSE "except"
    /\ exitStatus' = IF handling THEN 1 ELSE exitStatus

\* create_local_copy without its test for the staged dump
StagedAfterCopy_Always(p, s) == File(Plutil(p.content))

\* create_local_copy, the preference file p existing: the staged dump s is
\* kept when it exists, and is plutil's output on the copy of p otherwise
StagedAfterCopy(p, s) == IF s.exists THEN s ELSE File(Plutil(p.content))

\* the entries create_local_copy adds to the log: itself, and the run of
\* plutil when it converts
CopyAttempts(p, s) ==
    <<Attempt("create_local_copy", p.exists)>>
    \o (IF p.exists /\ StagedAfterCopy(p, s) # s
        THEN <<Attempt("plutil", TRUE)>> ELSE <<>>)

\* create_local_copy()
CreateLocalCopy ==
    /\ pc = "copy"
    /\ attempted' = attempted \o CopyAttempts(plist, staged)
    /\ IF plist.exists
       THEN /\ staged' = StagedAfterCopy(plist, staged)
            /\ pc' = "read"
            /\ UNCHANGED <<err, uncaught, exitStatus>>
       ELSE /\ Raise(ItermPlistError)
            /\ UNCHANGED staged
    /\ UNCHANGED <<plist, query, lines, lineNo, name, tags, tag_end, items,
                   wf_items, handling, stdout, flushed, history>>

\* wsh_list: the locals, io.open and f.readlines()
ReadLines ==
    /\ pc = "read"
    /\ attempted' = Append(attempted, Attempt("readlines", TRUE))
    /\ items' = <<>>
    /\ name' = <<>>
    /\ tags' = <<>>
    /\ tag_end' = TRUE
    /\ lines' = staged.content
    /\ lineNo' = 1
    /\ pc' = IF staged.content = <<>> THEN "filter" ELSE "parse"
    /\ UNCHANGED <<plist, staged, query, wf_items, handling, err, uncaught, stdout,
                   flushed, exitStatus, history>>

\* wsh_list: one iteration of the for loop
ParseStep ==
    /\ pc = "parse"
    /\ lineNo <= Len(lines)
    /\ LET r == ParseLine([name |-> name, tags |-> tags, tag_end |-> tag_end,
                           items |-> items], lines[lineNo])
       IN  /\ name' = r.name
           /\ tags' = r.tags
           /\ tag_end' = r.tag_end
           /\ items' = r.items
           /\ IF r.raised
              THEN /\ Raise(IndexError)
                   /\ UNCHANGED lineNo
              ELSE /\ lineNo' = lineNo + 1
                   /\ pc' = IF lineNo = Len(lines) THEN "filter" ELSE "parse"
                   /\ UNCHANGED <<err, uncaught, exitStatus>>
    /\ UNCHANGED <<plist, staged, query, lines, wf_items, handling, stdout,
                   flushed, attempted, history>>

\* wsh_list: items = filter(items, query)
FilterItems ==
    /\ pc = "filter"
    /\ attempted' = Append(attempted, Attempt("filter", TRUE))
    /\ items' = Filter(items, query)
    /\ pc' = "add"
    /\ UNCHANGED <<plist, staged, query, lines, lineNo, name, tags, tag_end,
                   wf_items, handling, err, uncaught, stdout, flushed, exitStatus,
                   history>>

\* wsh_list: wf.add_item for each item
AddItems ==
    /\ pc = "add"
    /\ wf_items' = wf_items \o [i \in 1..Len(items) |-> ProfileItem(items[i])]
    /\ pc' = "decl"
    /\ UNCHANGED <<plist, staged, query, lines, lineNo, name, tags, tag_end,
                   items, handling, err, uncaught, stdout, flushed, exitStatus,
                   attempted, history>>

\* send_feedback without its write of the declaration
WriteDecl_Missing ==
    /\ pc = "decl"
    /\ pc' = "body"
    /\ UNCHANGED <<plist, staged, query, lines, lineNo, name, tags, tag_end,
                   items, wf_items, handling, err, uncaught, stdout, flushed,
                   exitStatus, attempted, history>>

\* send_feedback: the root is built, the declaration is written
WriteDecl ==
    /\ pc = "decl"
    /\ \E ok \in BOOLEAN :
          IF ok
          THEN /\ stdout' = Append(stdout, XmlDecl)
               /\ attempted' = Append(attempted, Attempt("write_decl", TRUE))
               /\ pc' = "body"
               /\ UNCHANGED <<err, uncaught, exitStatus>>
          ELSE /\ Raise(OSError)
               /\ attempted' = Append(attempted, Attempt("write_decl", FALSE))
               /\ UNCHANGED stdout
    /\ UNCHANGED <<plist, staged, query, lines, lineNo, name, tags, tag_end,
                   items, wf_items, handling, flushed, history>>

\* send_feedback: ET.tostring(root), then the body is written
WriteBody ==
    /\ pc = "body"
    /\ IF ~Serializable(Root(wf_items))
       THEN /\ Raise(TypeError)
            /\ attempted' = Append(attempted, Attempt("tostring", FALSE))
            /\ UNCHANGED stdout
       ELSE \E ok \in BOOLEAN :
               IF ok
               THEN /\ stdout' = Append(stdout, Body(Root(wf_items)))
                    /\ attempted' = Append(attempted, Attempt("write_body", TRUE))
                    /\ pc' = "flush"
                    /\ UNCHANGED <<err, uncaught, exitStatus>>
               ELSE /\ Raise(OSError)
                    /\ attempted' = Append(attempted, Attempt("write_body", FALSE))
                    /\ UNCHANGED stdout
    /\ UNCHANGED <<plist, staged, query, lines, lineNo, name, tags, tag_end,
                   items, wf_items, handling, flushed, history>>

\* send_feedback: sys.stdout.flush()
Flush ==
    /\ pc = "flush"
    /\ \E ok \in BOOLEAN :
          IF ok
          THEN /\ flushed' = TRUE
               /\ attempted' = Append(attempted, Attempt("flush", TRUE))
               /\ pc' = "return"
               /\ UNCHANGED <<err, uncaught, exitStatus>>
          ELSE /\ Raise(OSError)
               /\ attempted' = Append(attempted, Attempt("flush", FALSE))
               /\ UNCHANGED flushed
    /\ UNCHANGED <<plist, staged, query, lines, lineNo, name, tags, tag_end,
                   items, wf_items, handling, stdout, history>>

\* an except block that calls func again
Except_Retry ==
    /\ pc = "except"
    /\ handling' = TRUE
    /\ pc' = "copy"
    /\ UNCHANGED <<plist, staged, query, lines, lineNo, name, tags, tag_end,
                   items, wf_items, err, uncaught, stdout, flushed, exitStatus,
                   attempted, history>>

\* Workflow.run: the except block up to its send_feedback call
Except ==
    /\ pc = "except"
    /\ handling' = TRUE
    /\ wf_items' = <<ErrorItem(err)>>
    /\ pc' = "decl"
    /\ UNCHANGED <<plist, staged, query, lines, lineNo, name, tags, tag_end,
                   items, err, uncaught, stdout, flushed, exitStatus, attempted,
                   history>>

\* Workflow.run returns 0 and __main__ passes it to sys.exit
Return ==
    /\ pc = "return"
    /\ exitStatus' = 0
    /\ pc' = "exited"
    /\ UNCHANGED <<plist, staged, query, lines, lineNo, name, tags, tag_end,
                   items, wf_items, handling, err, uncaught, stdout, flushed,
                   attempted, history>>

Next ==
    \/ CreateLocalCopy
    \/ ReadLines
    \/ ParseStep
    \/ FilterItems
    \/ AddItems
    \/ WriteDecl
    \/ WriteBody
    \/ Flush
    \/ Except
    \/ Return

Spec == Init /\ [][Next]_vars

----------------------------------------------------------------------------
(* send_feedback over items of any text *)

\* texts given to add_item
FieldTexts ==
    <<<<"a", "<", "b">>, <<"x", "&", "y">>, <<"q", Quote, "z">>,
      <<"&", "l", "t", ";">>, <<"<", "/", "a", "r", "g", ">">>, <<>>,
      <<"<", "&", Quote, ">">>, <<"&", "a", "m", "p", ";", "&">>>>

\* Workflow.add_item(title, subtitle, arg=arg, valid=valid)
AddItem(title, subtitle, arg, valid) ==
    [title |-> Str(title), subtitle |-> Str(subtitle), arg |-> Str(arg),
     valid |-> valid, icon |-> None]

\* the i-th text, counted round the end of FieldTexts
FieldText(i) == FieldTexts[((i - 1) % Len(FieldTexts)) + 1]

FeedbackItems ==
    {AddItem(FieldText(i), FieldText(i + 1), FieldText(i + 2), i % 2 = 1) :
        i \in 1..Len(FieldTexts)}

\* func has added up to MaxItems items and calls send_feedback
InitFeedback ==
    /\ plist = File(<<>>)
    /\ staged = File(<<>>)
    /\ pc = "decl"
    /\ query = <<>>
    /\ lines = <<>>
    /\ lineNo = 1
    /\ name = <<>>
    /\ tags = <<>>
    /\ tag_end = TRUE
    /\ items = <<>>
    /\ wf_items \in SeqsUpTo(FeedbackItems, MaxItems)
    /\ handling = FALSE
    /\ err = NoErr
    /\ uncaught = NoErr
    /\ stdout = <<>>
    /\ flushed = FALSE
    /\ exitStatus = -1
    /\ attempted = <<>>
    /\ history = <<>>

NextFeedback ==
    \/ WriteDecl
    \/ WriteBody
    \/ Flush
    \/ Except
    \/ Return

SpecFeedback == InitFeedback /\ [][NextFeedback]_vars

----------------------------------------------------------------------------
(* Successive invocations *)

\* the preference file as it is found by the invocations of a session:
\* absent, or holding the profiles iTerm2 last saved
SessionPlists ==
    {NoFile,
     File(<<[name |-> <<"D", "e", "v">>, tags |-> <<<<"d", "o">>>>]>>),
     File(<<[name |-> <<"o">>, tags |-> <<>>],
            [name |-> <<"D", "e", "v">>,
             tags |-> <<<<"d", "o">>, <<"w">>>>]>>)}

\* the log holds an entry for op
Attempted(op) == \E i \in 1..Len(attempted) : attempted[i].op = op

\* what the process that has just exited found and did
Summary ==
    [plist |-> plist, staged |-> staged, query |-> query,
     converted |-> Attempted("plutil"),
     read |-> Attempted("readlines"),
     filtered |-> Attempted("filter"),
     dump |-> lines, records |-> items]

\* the first invocation of a session: /tmp holds no staged dump, or the
\* one an earlier session left
InitInvocations ==
    /\ plist \in SessionPlists
    /\ staged \in {NoFile}
                   \cup {File(Plutil(p.content)) : p \in SessionPlists \ {NoFile}}
    /\ pc = "copy"
    /\ query \in Queries
    /\ lines = <<>>
    /\ lineNo = 0
    /\ name = <<>>
    /\ tags = <<>>
    /\ tag_end = TRUE
    /\ items = <<>>
    /\ wf_items = <<>>
    /\ handling = FALSE
    /\ err = NoErr
    /\ uncaught = NoErr
    /\ stdout = <<>>
    /\ flushed = FALSE
    /\ exitStatus = -1
    /\ attempted = <<>>
    /\ history = <<>>

\* __main__ once more: the process has exited and the script is run again,
\* with its own query, after the preference file may have been rewritten
\* or removed; the files in /tmp stay as the last process left them
StartNext ==
    /\ pc = "exited"
    /\ Len(history) < MaxInvocations
    /\ history' = Append(history, Summary)
    /\ plist' \in SessionPlists
    /\ query' \in Queries
    /\ pc' = "copy"
    /\ lines' = <<>>
    /\ lineNo' = 0
    /\ name' = <<>>
    /\ tags' = <<>>
    /\ tag_end' = TRUE
    /\ items' = <<>>
    /\ wf_items' = <<>>
    /\ handling' = FALSE
    /\ err' = NoErr
    /\ uncaught' = NoErr
    /\ stdout' = <<>>
    /\ flushed' = FALSE
    /\ exitStatus' = -1
    /\ attempted' = <<>>
    /\ UNCHANGED staged

NextInvocations ==
    \/ CreateLocalCopy
    \/ ReadLines
    \/ ParseStep
    \/ FilterItems
    \/ AddItems
    \/ WriteDecl
    \/ WriteBody
    \/ Flush
    \/ Except
    \/ Return
    \/ StartNext

SpecInvocations == InitInvocations /\ [][NextInvocations]_vars

----------------------------------------------------------------------------
(* Claims *)

\* no write to standard output and no flush of it has failed
StdoutWorked == err # OSError /\ uncaught # OSError

\* the invocation has ended after a step of func raised
Failed == pc = "exited" /\ err # NoErr /\ StdoutWorked

\* the document the except block is meant to emit for exception e
ErrorDocument(e) ==
    <<XmlDecl,
      Body(<<[valid |-> "no",
              title |-> Str(<<"Error in workflow '">> \o WorkflowName \o <<"'">>),
              subtitle |-> Str(e.msg),
              arg |-> <<>>,
              icon |-> <<Str(ICON_ERROR)>>]>>)>>

\* C1: when a step of the pipeline raises, the invocation does not crash
\* and standard output holds one document whose single item has the error
\* title and the error's description as its body (stated for the
\* invocations in which standard output itself never failed).
C1_ErrorDocumentOnFailure ==
    Failed => (uncaught = NoErr /\ stdout = ErrorDocument(err))

\* C2: the parser never raises: whatever the lines of the dump, no
\* iteration of the loop of wsh_list raises, and the loop reaches the end of
\* the input.
C2_ParserNeverRaises ==
    /\ err # IndexError
    /\ (pc \notin {"copy", "read", "parse"} /\ lines # <<>>)
           => lineNo = Len(lines) + 1

\* C3: when the invocation ends, standard output holds exactly one
\* complete document: the declaration followed by one body (stated for the
\* invocations in which standard output itself never failed).
C3_NoPartialOutput ==
    (pc = "exited" /\ StdoutWorked) =>
        (Len(stdout) = 2 /\ stdout[1] = XmlDecl /\ stdout[2].kind = "body")

\* C4: every invocation ends with exit status 0, whether the pipeline
\* succeeded or one of its steps raised (stated for the invocations in which
\* standard output itself never failed).
C4_ExitStatusZero == (pc = "exited" /\ StdoutWorked) => exitStatus = 0

\* the records the profiles of a preference file stand for
ExpectedRecords(profiles) ==
    [k \in 1..Len(profiles) |->
        [name |-> profiles[k].name, tags |-> Join(<<" ">>, profiles[k].tags)]]

\* the block of profile p holds one line containing ']': its closing line
OneCloseLine(p) ==
    /\ ~Contains(p.name, <<"]">>)
    /\ \A i \in DOMAIN p.tags : ~Contains(p.tags[i], <<"]">>)

\* the loop of wsh_list has ended on the dump plutil printed for the
\* preference file
ParsedPlutilDump ==
    /\ pc = "filter"
    /\ plist.exists
    /\ lines = Plutil(plist.content)

\* C5: for a dump of N well-formed blocks in sequence the parse returns N
\* records in the dump's order, the k-th with the k-th block's name and its
\* tags in their original order.
C5_WellFormedRoundTrip ==
    (ParsedPlutilDump /\ \A k \in DOMAIN plist.content :
                            OneCloseLine(plist.content[k]))
        => items = ExpectedRecords(plist.content)

\* the lines before the loop's position that are closing markers: they
\* contain ']' and are not tags-open lines
ClosingLinesRead ==
    {i \in 1..(lineNo - 1) :
        Contains(lines[i], <<"]">>) /\ ~Contains(lines[i], keyword_tags)}

\* the loop of wsh_list has ended on the dump of the preference file cut
\* off before the closing line of its last block
ParsedUnterminatedDump ==
    /\ pc = "filter"
    /\ plist.exists
    /\ plist.content # <<>>
    /\ lines = Unterminated(Plutil(plist.content))
    /\ OneCloseLine(plist.content[Len(plist.content)])

\* C7: only a closing marker finalizes a record: the parse never holds more
\* records than closing markers read, and a dump of N blocks whose last
\* block lacks its closing line yields N-1 records, those of the closed
\* blocks, while the last block stays in progress.
C7_UnterminatedBlockDropped ==
    /\ pc \in {"parse", "filter"} => Len(items) <= Cardinality(ClosingLinesRead)
    /\ ParsedUnterminatedDump =>
          /\ Len(items) = Len(plist.content) - 1
          /\ \A k \in 1..(Len(plist.content) - 1) :
                items[k].name = plist.content[k].name
          /\ tag_end = FALSE

\* C7 witness: two blocks, the second with tags and without its closing
\* line, parsed to one record with the second block still open
C7_Witness ==
    /\ ParsedUnterminatedDump
    /\ Len(plist.content) = 2
    /\ Len(items) = 1
    /\ tags # <<>>
    /\ name # <<>>

\* func has written the declaration and the body of the normal document
NormalDocumentWritten == ~handling /\ Len(stdout) = 2

\* C6 as stated: the normal document holds one item node per surviving
\* record, in order, with title = name, subtitle = joined tags, an argument
\* equal to the name and valid = yes, whatever the name.
C6_ItemPerRecord ==
    NormalDocumentWritten =>
        LET doc == stdout[2].items
        IN  /\ Len(doc) = Len(items)
            /\ \A i \in DOMAIN doc :
                  /\ doc[i].title = Str(items[i].name)
                  /\ doc[i].subtitle = Str(items[i].tags)
                  /\ doc[i].valid = "yes"
                  /\ doc[i].arg = <<Str(items[i].name)>>

\* C6 amended: as C6, the argument node equal to the name when the name is
\* not empty; a record with an empty name gets an item without argument
\* node.
C6_ItemPerRecordArgUnlessEmpty ==
    NormalDocumentWritten =>
        LET doc == stdout[2].items
        IN  /\ Len(doc) = Len(items)
            /\ \A i \in DOMAIN doc :
                  /\ doc[i].title = Str(items[i].name)
                  /\ doc[i].subtitle = Str(items[i].tags)
                  /\ doc[i].valid = "yes"
                  /\ doc[i].arg = IF items[i].name = <<>> THEN <<>>
                                  ELSE <<Str(items[i].name)>>

\* C6 witness: an invocation ended normally with a document of two items,
\* the first from a record with two tags
C6_Witness ==
    /\ pc = "exited"
    /\ NormalDocumentWritten
    /\ Len(stdout[2].items) = 2
    /\ Contains(stdout[2].items[1].subtitle.v, <<" ">>)
    /\ stdout[2].items[2].arg # <<>>

\* s holds sub as a run of consecutive characters
IsSubstring(s, sub) ==
    \E i \in 0..Len(s) : i + Len(sub) <= Len(s) /\
        \A j \in 1..Len(sub) : s[i + j] = sub[j]

\* record r is one the filter is to keep for query q
Kept(r, q) ==
    \/ IsSubstring(Lower(r.name), Lower(q))
    \/ IsSubstring(Lower(r.tags), Lower(q))

\* the records of R to keep for q, in R's order
KeptOf(R, q) == LET Test(r) == Kept(r, q) IN SelectSeq(R, Test)

\* C8: for a non-empty query the filter step leaves exactly the records
\* whose lowered name or lowered joined tags contain the lowered query, in
\* their original relative order, none added, duplicated or altered.
C8_FilterSelects ==
    [][(pc = "filter" /\ query # <<>>) => items' = KeptOf(items, query)]_vars

\* C8 witness: the filter has run with a non-empty query on the two records
\* of a preference file and kept one of them
C8_Witness ==
    /\ pc = "add"
    /\ query # <<>>
    /\ lines = Plutil(plist.content)
    /\ Len(plist.content) = 2
    /\ Len(items) = 1

\* C9: with the empty query the filter step returns its input unchanged.
C9_EmptyQueryIdentity ==
    [][(pc = "filter" /\ query = <<>>) => items' = items]_vars

\* C9 witness: the filter has run with the empty query on two records
C9_Witness ==
    /\ pc = "add"
    /\ query = <<>>
    /\ Len(items) = 2

\* C10: filtering the filter's result again with the same query changes
\* nothing.
C10_FilterIdempotent ==
    [][pc = "filter" => Filter(items', query) = items']_vars

\* C10 witness: the filter has run with a non-empty query and kept a record
\* whose name does not match, next to a dropped one
C10_Witness ==
    /\ pc = "add"
    /\ query = <<"d">>
    /\ lines = Plutil(plist.content)
    /\ Len(plist.content) = 2
    /\ Len(items) = 1
    /\ items[1].name = <<"o">>

----------------------------------------------------------------------------
(* Claims on the steps of the dump parser *)

\* the part of s after the first occurrence of sep, which s contains
AfterFirst(s, sep) == SubSeq(s, Find(s, sep) + Len(sep) + 1, Len(s))

\* text with its double quotes removed and its whitespace stripped
Unquoted(s) == Strip(Replace(s, <<Quote>>, <<>>))

\* C13: a step of the parse over a line that contains the name marker
\* changes only the pending name: the pending tags, the tag block flag and
\* the records emitted so far stay as they were, whether or not a tag block
\* is open and whatever else the line contains.
C13_NameLineChangesOnlyName ==
    [][(pc = "parse" /\ Contains(lines[lineNo], keyword_name))
          => (tags' = tags /\ tag_end' = tag_end /\ items' = items)]_vars

\* C14: the tag that a step of the parse appends to the pending tags is the
\* whole of the line after its first '=>', further '=>' included, with the
\* double quotes removed and the surrounding whitespace stripped.
C14_TagIsAllAfterFirstArrow ==
    [][(pc = "parse" /\ Len(tags') = Len(tags) + 1)
          => tags'[Len(tags')]
                = Unquoted(AfterFirst(lines[lineNo], <<"=", ">">>))]_vars

\* C15: after a step of the parse over a line that contains the name marker,
\* read while no tag block is open, the pending name is the text that
\* follows the marker, double quotes removed and whitespace stripped; what
\* precedes the marker is no part of it.
C15_NameIsTextAfterMarker ==
    [][(pc = "parse" /\ tag_end = TRUE
          /\ Contains(lines[lineNo], keyword_name))
          => name' = Unquoted(AfterFirst(lines[lineNo], keyword_name))]_vars

\* the largest and the smallest member of a non-empty set of numbers
SetMax(S) == CHOOSE x \in S : \A y \in S : y <= x
SetMin(S) == CHOOSE x \in S : \A y \in S : x <= y

RECURSIVE BlockOpenAfter(_, _)
\* a tag block is open once the first k lines of ls have been read
BlockOpenAfter(ls, k) ==
    IF k = 0 THEN FALSE
    ELSE IF Contains(ls[k], keyword_tags) THEN TRUE
    ELSE BlockOpenAfter(ls, k - 1) /\ ~Contains(ls[k], <<"]">>)

\* line k of ls closes a record
ClosesAt(ls, k) ==
    /\ ~Contains(ls[k], keyword_tags)
    /\ Contains(ls[k], <<"]">>)
    /\ BlockOpenAfter(ls, k - 1)

\* the lines with the name marker after the close that precedes line k,
\* line k included
NameLinesUpTo(ls, k) ==
    LET closes == {j \in 1..(k - 1) : ClosesAt(ls, j)}
        from == IF closes = {} THEN 1 ELSE SetMax(closes) + 1
    IN  {i \in from..k : Contains(ls[i], keyword_name)}

\* the record a step of the parse has just appended
NewRecord == items'[Len(items')]

\* C16 as stated: a record's name is set once; of several name-marker
\* lines between the previous close and the record's close, the record
\* carries the name of the first.
C16_RecordCarriesFirstName ==
    [][(pc = "parse" /\ Len(items') = Len(items) + 1
          /\ NameLinesUpTo(lines, lineNo) # {})
          => NewRecord.name
                = NameOf(lines[SetMin(NameLinesUpTo(lines, lineNo))])]_vars

\* C16 amended: of several name-marker lines between the previous close
\* and the record's close, the closing line included, the record carries the
\* name of the last; with no such line its name is empty.
C16_RecordCarriesLastName ==
    [][(pc = "parse" /\ Len(items') = Len(items) + 1)
          => NewRecord.name
                = IF NameLinesUpTo(lines, lineNo) = {} THEN <<>>
                  ELSE NameOf(lines[SetMax(NameLinesUpTo(lines, lineNo))])]_vars

\* a record has just been closed after two name-marker lines with
\* different names, and carries the later one
C16_Witness ==
    /\ pc \in {"parse", "filter"}
    /\ lineNo > 1
    /\ items # <<>>
    /\ ClosesAt(lines, lineNo - 1)
    /\ LET S == NameLinesUpTo(lines, lineNo - 1)
       IN  /\ Cardinality(S) >= 2
           /\ NameOf(lines[SetMin(S)]) # NameOf(lines[SetMax(S)])
           /\ items[Len(items)].name = NameOf(lines[SetMax(S)])

\* a is a prefix of b
IsPrefix(a, b) == Len(a) <= Len(b) /\ SubSeq(b, 1, Len(a)) = a

\* C18: during the parse the list of records only grows at its end: every
\* step leaves it as it was or appends one record, which it does only on a
\* line with ']', so the records emitted so far are a prefix of the later
\* list, in the order of their closing lines.
C18_ResultAppendOnly ==
    [][pc = "parse"
          => /\ IsPrefix(items, items')
             /\ Len(items') <= Len(items) + 1
             /\ Len(items') = Len(items) + 1
                   => Contains(lines[lineNo], <<"]">>)]_vars

\* two records have been emitted, the first one before the second
C18_Witness ==
    /\ pc \in {"parse", "filter"}
    /\ Len(items) = 2
    /\ items[1] # items[2]
    /\ ClosesAt(lines, lineNo - 1)

\* C19 as stated: a step of the parse over a line that contains ']', read
\* while a tag block is open and not a tags-open line, appends the one
\* record made of the pending name and the pending tags, and leaves the name
\* empty, the tags empty and no tag block open.
C19_CloseEmitsPending ==
    [][(pc = "parse" /\ tag_end = FALSE
          /\ Contains(lines[lineNo], <<"]">>)
          /\ ~Contains(lines[lineNo], keyword_tags))
          => /\ items' = Append(items, [name |-> name,
                                        tags |-> Join(<<" ">>, tags)])
             /\ name' = <<>>
             /\ tags' = <<>>
             /\ tag_end' = TRUE]_vars

\* C19 amended: the same for a line that contains neither marker; and every
\* step that appends a record leaves the name empty, the tags empty and no
\* tag block open, so nothing read before carries over to a later record.
C19_CloseEmitsPendingUnlessNamed ==
    [][/\ (pc = "parse" /\ tag_end = FALSE
             /\ Contains(lines[lineNo], <<"]">>)
             /\ ~Contains(lines[lineNo], keyword_tags)
             /\ ~Contains(lines[lineNo], keyword_name))
          => items' = Append(items, [name |-> name,
                                     tags |-> Join(<<" ">>, tags)])
       /\ (pc = "parse" /\ Len(items') = Len(items) + 1)
          => /\ name' = <<>>
             /\ tags' = <<>>
             /\ tag_end' = TRUE]_vars

\* a record with a name and two tags has been closed by a line with
\* neither marker, and the locals are reset
C19_Witness ==
    /\ pc \in {"parse", "filter"}
    /\ lineNo > 1
    /\ ClosesAt(lines, lineNo - 1)
    /\ ~Contains(lines[lineNo - 1], keyword_name)
    /\ items # <<>>
    /\ items[Len(items)].name # <<>>
    /\ Contains(items[Len(items)].tags, <<" ">>)
    /\ name = <<>>
    /\ tags = <<>>
    /\ tag_end = TRUE

\* C20: the pending tags grow only in a step taken while a tag block is
\* open, and not on a tags-open line; and after every step of the
\* invocation, when no tag block is open the pending tags are empty.
C20_TagsOnlyInsideBlock ==
    [][/\ (Len(tags') > Len(tags))
          => (pc = "parse" /\ tag_end = FALSE
                /\ ~Contains(lines[lineNo], keyword_tags))
       /\ tag_end' = TRUE => tags' = <<>>]_vars

\* a block that held tags has been closed: the tags are empty again
C20_Witness ==
    /\ pc \in {"parse", "filter"}
    /\ tag_end = TRUE
    /\ tags = <<>>
    /\ items # <<>>
    /\ items[Len(items)].tags # <<>>

----------------------------------------------------------------------------
(* Claims on the calls of one invocation *)

\* the calls on sys.stdout and the serialization that precedes the body
OutputOps == {"write_decl", "tostring", "write_body", "flush"}

\* C11: the calls on standard output come in order: the body is written
\* only right after the declaration has been written, the stream is flushed
\* only right after the body has been written, and what standard output
\* holds starts with the declaration, each body right after a declaration;
\* once flushed it is the declaration and the body.
C11_DeclarationBodyFlush ==
    /\ \A i \in 1..Len(attempted) :
          /\ attempted[i].op = "write_body"
                => (i > 1 /\ attempted[i - 1] = Attempt("write_decl", TRUE))
          /\ attempted[i].op = "flush"
                => (i > 1 /\ attempted[i - 1] = Attempt("write_body", TRUE))
    /\ stdout # <<>> => stdout[1] = XmlDecl
    /\ \A i \in 1..Len(stdout) :
          stdout[i].kind = "body" => (i > 1 /\ stdout[i - 1] = XmlDecl)
    /\ flushed => (Len(stdout) = 2 /\ stdout[2].kind = "body")

\* a document with an item has been written and flushed
C11_Witness ==
    /\ flushed
    /\ wf_items # <<>>
    /\ stdout = <<XmlDecl, Body(Root(wf_items))>>
    /\ SubSeq(attempted, Len(attempted) - 2, Len(attempted))
          = <<Attempt("write_decl", TRUE), Attempt("write_body", TRUE),
              Attempt("flush", TRUE)>>

\* the positions of the log at which a call raised
Failures == {i \in 1..Len(attempted) : ~attempted[i].ok}

\* no operation occurs twice among the entries lo..hi of the log
NoRepeat(lo, hi) ==
    \A i, j \in lo..hi : i # j => attempted[i].op # attempted[j].op

\* C17 as stated: no operation is attempted twice; once a write to
\* standard output has failed, no further write to it is attempted.
C17_NoWriteAfterFailedWrite ==
    \A i, j \in 1..Len(attempted) :
       (i < j /\ attempted[i].op \in {"write_decl", "write_body"}
          /\ ~attempted[i].ok)
          => attempted[j].op \notin {"write_decl", "write_body"}

\* C17 amended: func attempts each operation at most once; after the first
\* failure, a failed write or flush included, only the except block's
\* send_feedback follows: output operations, each at most once more.
C17_OnceAndOnceMoreToReport ==
    IF Failures = {} THEN NoRepeat(1, Len(attempted))
    ELSE LET f == SetMin(Failures)
         IN  /\ NoRepeat(1, f)
             /\ NoRepeat(f + 1, Len(attempted))
             /\ \A i \in (f + 1)..Len(attempted) :
                   attempted[i].op \in OutputOps

\* the write of the body failed and the except block has written the
\* declaration a second time
C17_Witness ==
    /\ pc = "exited"
    /\ Len(attempted) >= 2
    /\ \E i \in 1..Len(attempted) :
          /\ attempted[i] = Attempt("write_body", FALSE)
          /\ i < Len(attempted)
          /\ attempted[i + 1] = Attempt("write_decl", TRUE)

----------------------------------------------------------------------------
(* Claims on the serialized document *)

\* A reader of the document: a markup parser for the declaration, elements
\* with attributes, character data and the predefined entity references.

\* in the place of a character: the text there is not well formed
Malformed == "malformed"

NameChars ==
    {"a", "b", "c", "d", "e", "f", "g", "h", "i", "j", "k", "l", "m", "n",
     "o", "p", "q", "r", "s", "t", "u", "v", "w", "x", "y", "z"}

\* the character an entity reference stands for
EntityOf(ref) ==
    CASE ref = <<"a", "m", "p">> -> "&"
      [] ref = <<"l", "t">> -> "<"
      [] ref = <<"g", "t">> -> ">"
      [] ref = <<"q", "u", "o", "t">> -> Quote
      [] ref = <<"a", "p", "o", "s">> -> "'"
      [] OTHER -> Malformed

RECURSIVE Unescape(_)
\* character data with its references replaced
Unescape(raw) ==
    IF raw = <<>> THEN <<>>
    ELSE IF Head(raw) # "&" THEN <<Head(raw)>> \o Unescape(Tail(raw))
    ELSE LET semi == Find(raw, <<";">>)
         IN  IF semi = -1 THEN <<Malformed>>
             ELSE <<EntityOf(SubSeq(raw, 2, semi))>>
                  \o Unescape(SubSeq(raw, semi + 2, Len(raw)))

IsWellFormed(text) == \A i \in 1..Len(text) : text[i] # Malformed

RECURSIVE Tokens(_)
\* the document cut into tags (the text between '<' and the next '>') and
\* runs of character data
Tokens(s) ==
    IF s = <<>> THEN <<>>
    ELSE IF Head(s) = "<"
    THEN LET close == Find(s, <<">">>)
         IN  IF close = -1 THEN <<[k |-> "bad", s |-> s]>>
             ELSE <<[k |-> "tag", s |-> SubSeq(s, 2, close)]>>
                  \o Tokens(SubSeq(s, close + 2, Len(s)))
    ELSE LET lt == Find(s, <<"<">>)
             n == IF lt = -1 THEN Len(s) ELSE lt
         IN  <<[k |-> "text", s |-> SubSeq(s, 1, n)]>>
             \o Tokens(SubSeq(s, n + 1, Len(s)))

IsDeclaration(t) == t # <<>> /\ Head(t) = "?" /\ t[Len(t)] = "?"
IsEndTag(t) == t # <<>> /\ Head(t) = "/"
IsEmptyElement(t) == t # <<>> /\ t[Len(t)] = "/"

\* a start tag or empty-element tag without its '/'
TagBody(t) == IF IsEmptyElement(t) THEN SubSeq(t, 1, Len(t) - 1) ELSE t

TagName(t) ==
    LET sp == Find(TagBody(t), <<" ">>)
    IN  IF sp = -1 THEN TagBody(t) ELSE SubSeq(TagBody(t), 1, sp)

IsName(n) == n # <<>> /\ \A i \in 1..Len(n) : n[i] \in NameChars

\* the attributes of a tag: none, or one name="value"
TagAttrs(t) ==
    LET sp == Find(TagBody(t), <<" ">>)
        raw == IF sp = -1 THEN <<>>
               ELSE Strip(SubSeq(TagBody(t), sp + 1, Len(TagBody(t))))
        eq == Find(raw, <<"=", Quote>>)
        value == SubSeq(raw, eq + 3, Len(raw) - 1)
    IN  IF raw = <<>> THEN <<>>
        ELSE IF eq < 1 \/ raw[Len(raw)] # Quote \/ Len(raw) < eq + 3
                \/ ~IsName(SubSeq(raw, 1, eq))
                \/ Contains(value, <<Quote>>) \/ Contains(value, <<"<">>)
        THEN <<[name |-> <<Malformed>>, value |-> <<>>]>>
        ELSE <<[name |-> SubSeq(raw, 1, eq), value |-> Unescape(value)]>>

AttrsWellFormed(as) ==
    \A i \in 1..Len(as) :
       IsWellFormed(as[i].name) /\ IsWellFormed(as[i].value)

Node(tag, attrs, text, kids) ==
    [tag |-> tag, attrs |-> attrs, text |-> text, kids |-> kids]

NotParsed(pos) == [ok |-> FALSE, pos |-> pos, text |-> <<>>, kids |-> <<>>]

RECURSIVE ParseContent(_, _, _, _)
\* The content of an element read from token pos on, up to the end tag
\* that closes it or the end of the tokens: its character data and its
\* child nodes.
ParseContent(toks, pos, text, kids) ==
    IF pos > Len(toks)
    THEN [ok |-> TRUE, pos |-> pos, text |-> text, kids |-> kids]
    ELSE LET t == toks[pos]
         IN  IF t.k = "bad" THEN NotParsed(pos)
             ELSE IF t.k = "text"
             THEN IF IsWellFormed(Unescape(t.s))
                  THEN ParseContent(toks, pos + 1, text \o Unescape(t.s), kids)
                  ELSE NotParsed(pos)
             ELSE IF IsDeclaration(t.s)
             THEN ParseContent(toks, pos + 1, text, kids)
             ELSE IF IsEndTag(t.s)
             THEN [ok |-> TRUE, pos |-> pos, text |-> text, kids |-> kids]
             ELSE IF ~IsName(TagName(t.s)) \/ ~AttrsWellFormed(TagAttrs(t.s))
             THEN NotParsed(pos)
             ELSE IF IsEmptyElement(t.s)
             THEN ParseContent(toks, pos + 1, text,
                      Append(kids, Node(TagName(t.s), TagAttrs(t.s),
                                        <<>>, <<>>)))
             ELSE LET in == ParseContent(toks, pos + 1, <<>>, <<>>)
                  IN  IF ~in.ok \/ in.pos > Len(toks)
                      THEN NotParsed(pos)
                      ELSE IF toks[in.pos].s # <<"/">> \o TagName(t.s)
                      THEN NotParsed(pos)
                      ELSE ParseContent(toks, in.pos + 1, text,
                               Append(kids, Node(TagName(t.s), TagAttrs(t.s),
                                                 in.text, in.kids)))

\* the document's root node, when the document is well formed: one root,
\* nothing but whitespace around it
ParseXml(doc) ==
    LET r == ParseContent(Tokens(doc), 1, <<>>, <<>>)
    IN  IF r.ok /\ r.pos > Len(Tokens(doc)) /\ Len(r.kids) = 1
           /\ Strip(r.text) = <<>>
        THEN [ok |-> TRUE, root |-> r.kids[1]]
        ELSE [ok |-> FALSE, root |-> <<>>]

\* the node a reader is to find for an item: validity, title, subtitle,
\* and the argument when it is not empty
ExpectedNode(item) ==
    Node(TagItem,
         <<[name |-> <<"v", "a", "l", "i", "d">>,
            value |-> IF item.valid THEN <<"y", "e", "s">> ELSE <<"n", "o">>]>>,
         <<>>,
         <<Node(TagTitle, <<>>, item.title.v, <<>>),
           Node(TagSubtitle, <<>>, item.subtitle.v, <<>>)>>
         \o (IF item.arg.v = <<>> THEN <<>>
             ELSE <<Node(TagArg, <<>>, item.arg.v, <<>>)>>))

\* everything written to standard output, in order
Written ==
    IF stdout = <<>> THEN <<>>
    ELSE IF Len(stdout) = 1 THEN stdout[1].text
    ELSE stdout[1].text \o stdout[2].text

\* C12: parsing the document written for the items gives one root with one
\* item node per item, in order, in which the title, the subtitle and the
\* argument are the item's texts, character for character, whatever '<',
\* '&' or '"' they contain.
C12_EscapingRoundTrip ==
    NormalDocumentWritten
       => ParseXml(Written)
             = [ok |-> TRUE,
                root |-> Node(TagItems, <<>>, <<>>,
                              [i \in 1..Len(wf_items) |->
                                   ExpectedNode(wf_items[i])])]

\* a document has been written for an item whose title holds '<', whose
\* subtitle holds '&' and whose argument holds '"'
C12_Witness ==
    /\ NormalDocumentWritten
    /\ flushed
    /\ \E i \in 1..Len(wf_items) :
          /\ Contains(wf_items[i].title.v, <<"<">>)
          /\ Contains(wf_items[i].subtitle.v, <<"&">>)
          /\ Contains(wf_items[i].arg.v, <<Quote>>)

----------------------------------------------------------------------------
(* Claims on successive invocations *)

====
